---- MODULE Spec2Model ----
(***************************************************************************)
(* Model of ocd_frontend/rest/views.py: the /search handler.               *)
(*   parse_search_request  validates a JSON-decoded request body           *)
(*   search                builds the Elasticsearch query and sends it     *)
(*   format_search_results strips engine metadata from the result          *)
(* current_app.config is one object shared by every request handler of the *)
(* process.                                                                *)
(***************************************************************************)
EXTENDS Integers, Sequences, FiniteSets, TLC

VARIABLES
    AVAILABLE_FACETS,   \* current_app.config['AVAILABLE_FACETS'], shared
    pc,                 \* per handler: position inside search()
    data,               \* per handler: request.data
    requested_facets,   \* per handler: entries the loop of line 46 has left
    facets,             \* per handler: keys of the local dict `facets`
    search_req,         \* per handler: outcome of parse_search_request
    es_q,               \* per handler: the query built by search()
    body,               \* per handler: the facets serialised to the engine
    es_r,               \* per handler: the engine's result
    response            \* per handler: outcome of format_search_results

vars ==
    <<AVAILABLE_FACETS, pc, data, requested_facets, facets, search_req, es_q,
      body, es_r, response>>

Handlers == {"h1", "h2"}

-----------------------------------------------------------------------------
(* JSON values as Python 2 sees them after decoding.  t is the Python type, *)
(* n the number (tenths for a finite float, the length for a list or dict), *)
(* s the code points of a unicode string.  "inf" and "nan" are the floats   *)
(* decoded from Infinity, -Infinity and NaN.  "absent" stands for a key     *)
(* that is not in the mapping.                                              *)

Absent == [t |-> "absent", n |-> 0, s |-> <<>>]
Null == [t |-> "null", n |-> 0, s |-> <<>>]
JInt(i) == [t |-> "int", n |-> i, s |-> <<>>]
JBool(b) == [t |-> "bool", n |-> IF b THEN 1 ELSE 0, s |-> <<>>]
JFloat(tenths) == [t |-> "float", n |-> tenths, s |-> <<>>]
JInfinity(sign) == [t |-> "inf", n |-> sign, s |-> <<>>]
JNaN == [t |-> "nan", n |-> 0, s |-> <<>>]
JStr(cs) == [t |-> "str", n |-> 0, s |-> cs]
JList(len) == [t |-> "list", n |-> len, s |-> <<>>]
JDict(len) == [t |-> "dict", n |-> len, s |-> <<>>]

\* The string literals of the source and of the configuration.
S_score == <<95, 115, 99, 111, 114, 101>>   \* '_score'
S_asc == <<97, 115, 99>>                    \* 'asc'
S_desc == <<100, 101, 115, 99>>             \* 'desc'
S_date == <<100, 97, 116, 101>>             \* 'date'
S_day == <<100, 97, 121>>                   \* 'day'
S_month == <<109, 111, 110, 116, 104>>      \* 'month'

-----------------------------------------------------------------------------
(* Configuration read through current_app.config.                          *)

DEFAULT_SEARCH_SIZE == 10
MAX_SEARCH_SIZE == 100
SORTABLE_FIELDS == {S_score, S_date}
ALLOWED_DATE_INTERVALS == {S_day, S_month}

\* One facet definition {f_type: {'field': ..., 'size' | 'interval': ...}}.
TermsFacet(field, size) ==
    [type |-> "terms", field |-> field, size |-> size, interval |-> <<>>]
DateHistogramFacet(field, interval) ==
    [type |-> "date_histogram", field |-> field, size |-> 0, interval |-> interval]

\* AVAILABLE_FACETS as loaded at process start.
ConfiguredFacets ==
    [name \in {"category", "rights", "date"} |->
        CASE name = "category" -> TermsFacet("cat_field", 10)
          [] name = "rights" -> TermsFacet("meta.rights", 20)
          [] name = "date" ->
                DateHistogramFacet("date_field", S_month)]

-----------------------------------------------------------------------------
(* Python built-ins used by the handler.                                   *)

\* bool(v), as in `if not query` and `if search_req['filters']`.
Truthy(v) ==
    CASE v.t \in {"absent", "null"} -> FALSE
      [] v.t \in {"bool", "int", "float", "list", "dict"} -> v.n # 0
      [] v.t \in {"inf", "nan"} -> TRUE
      [] v.t = "str" -> v.s # <<>>

\* Py_UNICODE_ISSPACE: the code points unicode treats as whitespace.
WhitespaceChars ==
    (9..13) \cup (28..32) \cup {133, 160, 5760, 6158} \cup (8192..8202)
    \cup {8232, 8233, 8239, 8287, 12288}

\* The code point of the digit zero of every run of ten decimal digits
\* (Unicode 5.2, the database of Python 2.7): ASCII, Arabic-Indic, ...,
\* fullwidth, Osmanya and the mathematical digits.
DecimalZeros ==
    {48, 1632, 1776, 1984, 2406, 2534, 2662, 2790, 2918, 3046, 3174, 3302,
     3430, 3664, 3792, 3872, 4160, 4240, 6112, 6160, 6470, 6608, 6784, 6800,
     6992, 7088, 7232, 7248, 42528, 43216, 43264, 43472, 43600, 44016, 65296,
     66720, 120782, 120792, 120802, 120812, 120822}

\* The code points with a decimal value; 6618 is NEW TAI LUE THAM DIGIT ONE.
DigitChars == {z + d : z \in DecimalZeros, d \in 0..9} \cup {6618}

\* Py_UNICODE_TODECIMAL
DigitVal(c) ==
    IF c = 6618 THEN 1 ELSE c - (CHOOSE z \in DecimalZeros : c - z \in 0..9)

RECURSIVE LStrip(_)
LStrip(cs) ==
    IF cs # <<>> /\ Head(cs) \in WhitespaceChars THEN LStrip(Tail(cs)) ELSE cs

RECURSIVE RStrip(_)
RStrip(cs) ==
    IF cs # <<>> /\ cs[Len(cs)] \in WhitespaceChars
    THEN RStrip(SubSeq(cs, 1, Len(cs) - 1))
    ELSE cs

RECURSIVE DigitsValue(_, _)
DigitsValue(cs, acc) ==
    IF cs = <<>> THEN acc
    ELSE DigitsValue(Tail(cs), acc * 10 + DigitVal(Head(cs)))

\* int(u"..."): whitespace, an optional sign, whitespace, decimal digits,
\* whitespace.  Anything else raises ValueError.
ParseInt(cs) ==
    LET stripped == RStrip(LStrip(cs))
        signed == stripped # <<>> /\ Head(stripped) \in {43, 45}   \* + -
        digits == IF signed THEN LStrip(Tail(stripped)) ELSE stripped
        valid == digits # <<>> /\ \A i \in 1..Len(digits) : digits[i] \in DigitChars
        magnitude == IF valid THEN DigitsValue(digits, 0) ELSE 0
    IN  [valid |-> valid,
         value |-> IF signed /\ Head(stripped) = 45 THEN 0 - magnitude
                   ELSE magnitude]

\* int(v): the value, or the exception it raises.
PyInt(v) ==
    CASE v.t \in {"int", "bool"} -> [exc |-> "None", value |-> v.n]
      [] v.t = "float" ->
            [exc |-> "None",
             value |-> IF v.n >= 0 THEN v.n \div 10 ELSE 0 - ((0 - v.n) \div 10)]
      [] v.t = "inf" -> [exc |-> "OverflowError", value |-> 0]
      [] v.t = "nan" -> [exc |-> "ValueError", value |-> 0]
      [] v.t = "str" ->
            IF ParseInt(v.s).valid
            THEN [exc |-> "None", value |-> ParseInt(v.s).value]
            ELSE [exc |-> "ValueError", value |-> 0]
      [] OTHER -> [exc |-> "TypeError", value |-> 0]

\* data.get(key, default)
Get(v, default) == IF v.t = "absent" THEN default ELSE v

\* `key in opts`: membership in a dict's keys, a list's elements or a
\* string's substrings (opts.has lists the keys found); any other type
\* raises TypeError.
SupportsIn(opts) == opts.t \in {"dict", "list", "str"}
Contains(opts, key) == key \in opts.has

\* `opts[key]` with a string key raises TypeError unless opts is a dict.
SupportsItem(opts) == opts.t = "dict"

-----------------------------------------------------------------------------
(* Outcomes of parse_search_request.                                       *)

NoIntent ==
    [query |-> Absent, n_size |-> 0, n_from |-> 0, sort |-> Absent,
     order |-> Absent, facets |-> <<>>, filters |-> <<>>]

\* return {...}
Returned(intent) == [kind |-> "ok", err |-> "None", intent |-> intent]
\* raise OcdApiError(msg, 400)
OcdApiError(err) == [kind |-> "error", err |-> err, intent |-> NoIntent]
\* any other exception leaves the view function
Uncaught(exc) == [kind |-> "crash", err |-> exc, intent |-> NoIntent]

-----------------------------------------------------------------------------
(* parse_search_request, lines 41-77: the requested facets.  A mapping is  *)
(* given as the sequence of its (name, opts) entries in iteration order.   *)
(* facets[facet] = available_facets[facet] binds the very object held by   *)
(* the configuration, so the item assignments of lines 65 and 77 store     *)
(* into AVAILABLE_FACETS; the loop therefore carries the configuration     *)
(* along, and `names` are the keys of the local dict `facets`.             *)

\* facets[facet][f_type]['size'] = size
StoreSize(available_facets, facet, size) ==
    [available_facets EXCEPT ![facet].size = size]

\* facets[facet][f_type]['interval'] = interval
StoreInterval(available_facets, facet, interval) ==
    [available_facets EXCEPT ![facet].interval = interval]

FacetsState(out, available_facets, names) ==
    [out |-> out, schema |-> available_facets, names |-> names]

\* One pass of the loop body, lines 47-77, for the entry (facet, facet_opts).
\* An outcome of kind "ok" means the pass ended without raising.
FacetsBody(entry, available_facets, names) ==
    LET facet == entry.name
        facet_opts == entry.opts
        bound == names \cup {facet}
    IN  IF facet \notin DOMAIN available_facets
        THEN FacetsState(OcdApiError("UnknownFacet"), available_facets, names)
        ELSE IF available_facets[facet].type = "terms" THEN
            IF ~SupportsIn(facet_opts)
            THEN FacetsState(Uncaught("TypeError"), available_facets, bound)
            ELSE IF ~Contains(facet_opts, "size")
            THEN FacetsState(Returned(NoIntent), available_facets, bound)
            ELSE IF ~SupportsItem(facet_opts)
            THEN FacetsState(Uncaught("TypeError"), available_facets, bound)
            ELSE IF facet_opts.size.t # "int"
            THEN FacetsState(OcdApiError("InvalidFacetSizeType"),
                             available_facets, bound)
            ELSE FacetsState(Returned(NoIntent),
                             StoreSize(available_facets, facet, facet_opts.size.n),
                             bound)
        ELSE IF available_facets[facet].type = "date_histogram" THEN
            IF ~SupportsIn(facet_opts)
            THEN FacetsState(Uncaught("TypeError"), available_facets, bound)
            ELSE IF ~Contains(facet_opts, "interval")
            THEN FacetsState(Returned(NoIntent), available_facets, bound)
            ELSE IF ~SupportsItem(facet_opts)
            THEN FacetsState(Uncaught("TypeError"), available_facets, bound)
            ELSE IF facet_opts.interval.t # "str"
            THEN FacetsState(OcdApiError("InvalidIntervalType"),
                             available_facets, bound)
            ELSE IF facet_opts.interval.s \notin ALLOWED_DATE_INTERVALS
            THEN FacetsState(OcdApiError("InvalidIntervalValue"),
                             available_facets, bound)
            ELSE FacetsState(Returned(NoIntent),
                             StoreInterval(available_facets, facet,
                                           facet_opts.interval.s),
                             bound)
        ELSE FacetsState(Returned(NoIntent), available_facets, bound)

\* The loop of lines 46-77 run without interruption.
RECURSIVE FacetsLoop(_, _, _)
FacetsLoop(items, available_facets, names) ==
    IF items = <<>> THEN FacetsState(Returned(NoIntent), available_facets, names)
    ELSE LET pass == FacetsBody(Head(items), available_facets, names)
         IN  IF pass.out.kind # "ok" THEN pass
             ELSE FacetsLoop(Tail(items), pass.schema, pass.names)

-----------------------------------------------------------------------------
(* parse_search_request, lines 79-122: the requested filters.              *)

\* {'terms': {field: filter_opts['terms']}}
TermsFilter(field, terms) ==
    [type |-> "terms", field |-> field, terms |-> terms,
     has |-> {}, from |-> Absent, to |-> Absent]

\* RangeFilter with both bounds always stored, a missing one as None.
RangeFilterBothBounds(field, filter_opts) ==
    [type |-> "range", field |-> field, terms |-> <<>>,
     has |-> {"from", "to"},
     from |-> IF "from" \in filter_opts.has THEN filter_opts.from ELSE Null,
     to |-> IF "to" \in filter_opts.has THEN filter_opts.to ELSE Null]

\* {'range': {field: {}}} with 'from' and 'to' copied when present
RangeFilter(field, filter_opts) ==
    [type |-> "range", field |-> field, terms |-> <<>>,
     has |-> filter_opts.has \cap {"from", "to"},
     from |-> IF "from" \in filter_opts.has THEN filter_opts.from ELSE Absent,
     to |-> IF "to" \in filter_opts.has THEN filter_opts.to ELSE Absent]

\* filters.append(clause)
AppendFilter(filters, clause) == Append(filters, clause)

FiltersState(out, filters) == [out |-> out, filters |-> filters]

RECURSIVE FiltersLoop(_, _, _)
FiltersLoop(items, available_facets, filters) ==
    IF items = <<>> THEN FiltersState(Returned(NoIntent), filters)
    ELSE
    LET r_filter == Head(items).name
        filter_opts == Head(items).opts
    IN  IF r_filter \notin DOMAIN available_facets
        THEN FiltersState(OcdApiError("UnknownFilter"), filters)
        ELSE IF available_facets[r_filter].type = "terms" THEN
            IF ~SupportsIn(filter_opts)
            THEN FiltersState(Uncaught("TypeError"), filters)
            ELSE IF ~Contains(filter_opts, "terms")
            THEN FiltersState(OcdApiError("MissingFilterTerms"), filters)
            ELSE IF ~SupportsItem(filter_opts)
            THEN FiltersState(Uncaught("TypeError"), filters)
            ELSE IF filter_opts.terms.t # "list"
            THEN FiltersState(OcdApiError("FilterTermsNotArray"), filters)
            ELSE IF \E i \in 1..Len(filter_opts.terms.elems) :
                        filter_opts.terms.elems[i].t \notin {"str", "int"}
            THEN FiltersState(OcdApiError("FilterTermsBadElementType"), filters)
            ELSE FiltersLoop(Tail(items), available_facets,
                     AppendFilter(filters,
                         TermsFilter(available_facets[r_filter].field,
                                     filter_opts.terms.elems)))
        ELSE IF available_facets[r_filter].type = "date_histogram" THEN
            IF filter_opts.t # "dict"
            THEN FiltersState(OcdApiError("FilterOptsNotObject"), filters)
            ELSE FiltersLoop(Tail(items), available_facets,
                     AppendFilter(filters,
                         RangeFilter(available_facets[r_filter].field,
                                     filter_opts)))
        ELSE FiltersLoop(Tail(items), available_facets, filters)

-----------------------------------------------------------------------------
(* parse_search_request in three parts: the fields checked before the     *)
(* facets loop, the loop, and the filters with the return.  intent.facets  *)
(* gives, for each key of the local dict `facets`, the definition as it    *)
(* reads when the function returns.                                        *)

\* lines 9-44: the exception raised, or the fields of the intent so far.
ParsedFields(d) ==
    LET query == Get(d.query, Null)
        size == PyInt(Get(d.size, JInt(DEFAULT_SEARCH_SIZE)))
        from == PyInt(Get(d.from, JInt(0)))
        sort == Get(d.sort, JStr(S_score))
        order == Get(d.order, JStr(S_desc))
    IN  IF d.t # "dict" THEN Uncaught("AttributeError")
        ELSE IF ~Truthy(query) THEN OcdApiError("MissingQuery")
        ELSE IF size.exc = "ValueError" THEN OcdApiError("InvalidSize")
        ELSE IF size.exc # "None" THEN Uncaught(size.exc)
        ELSE IF size.value < 0 \/ size.value > MAX_SEARCH_SIZE
        THEN OcdApiError("SizeOutOfRange")
        ELSE IF from.exc = "ValueError" THEN OcdApiError("InvalidFrom")
        ELSE IF from.exc # "None" THEN Uncaught(from.exc)
        ELSE IF from.value < 0 THEN OcdApiError("FromNegative")
        ELSE IF ~(sort.t = "str" /\ sort.s \in SORTABLE_FIELDS)
        THEN OcdApiError("InvalidSort")
        ELSE IF ~(order.t = "str" /\ order.s \in {S_asc, S_desc})
        THEN OcdApiError("InvalidOrder")
        ELSE IF d.facets.t \notin {"absent", "dict"}
        THEN OcdApiError("FacetsNotObject")
        ELSE Returned([NoIntent EXCEPT
                          !.query = query, !.n_size = size.value,
                          !.n_from = from.value, !.sort = sort,
                          !.order = order])

\* lines 80-132: the exception raised by the filters, or the intent.
ParsedFilters(d, available_facets, names) ==
    LET requested_filters ==
            IF d.filters.t = "absent" THEN <<>> ELSE d.filters.items
        fi == FiltersLoop(requested_filters, available_facets, <<>>)
    IN  IF d.filters.t \notin {"absent", "dict"}
        THEN OcdApiError("FiltersNotObject")
        ELSE IF fi.out.kind # "ok" THEN fi.out
        ELSE Returned([ParsedFields(d).intent EXCEPT
                          !.facets = [name \in names |-> available_facets[name]],
                          !.filters = fi.filters])

Parsed(out, available_facets) == [out |-> out, schema |-> available_facets]

\* One call run without interruption: the outcome, and AVAILABLE_FACETS as
\* the call leaves it.
parse_search_request(d, available_facets) ==
    LET fields == ParsedFields(d)
        req_facets == IF d.facets.t = "absent" THEN <<>> ELSE d.facets.items
        fl == FacetsLoop(req_facets, available_facets, {})
    IN  IF fields.kind # "ok" THEN Parsed(fields, available_facets)
        ELSE IF fl.out.kind # "ok" THEN Parsed(fl.out, fl.schema)
        ELSE Parsed(ParsedFilters(d, fl.schema, fl.names), fl.schema)

-----------------------------------------------------------------------------
(* search, lines 153-186: the query sent to Elasticsearch.                 *)

\* FilteredFilter with the conjunction attached whether or not there are
\* filters.
FilteredFilterAlwaysBool(filters) == [keys |-> {"bool"}, must |-> filters]

\* es_q['query']['filtered']['filter']: the literal {} of line 169, replaced
\* by {'bool': {'must': filters}} when the list of filters is not empty.
FilteredFilter(filters) ==
    IF filters # <<>>
    THEN [keys |-> {"bool"}, must |-> filters]
    ELSE [keys |-> {}, must |-> <<>>]

\* es_q.  'facets' holds the objects bound by parse_search_request, given
\* here by their names in AVAILABLE_FACETS.
build_es_q(intent) ==
    [query |-> intent.query,
     default_operator |-> "OR",
     fields |-> <<"title^3", "authors^2", "description^2",
                  "meta.original_object_id", "all_text">>,
     filtered_keys |-> {"query", "filter"},
     filter |-> FilteredFilter(intent.filters),
     facets |-> DOMAIN intent.facets,
     size |-> intent.n_size,
     from |-> intent.n_from,
     sort |-> [field |-> intent.sort, order |-> intent.order],
     exclude |-> <<"all_text">>]

NoQuery == build_es_q(NoIntent)

-----------------------------------------------------------------------------
(* format_search_results, lines 135-143.  An engine result is given by the *)
(* keys of the top-level dict, the keys of results['hits'] and, for each   *)
(* hit of results['hits']['hits'], the keys of the hit.  The deletions are *)
(* made in the object passed in, one after the other, and that object is   *)
(* what the function returns; a KeyError leaves it as far as it got.       *)

\* lines 139-141: the exception raised, and the hits as the loop left them.
RECURSIVE StripHits(_)
StripHits(hits) ==
    IF hits = <<>> THEN [exc |-> "None", hits |-> <<>>]
    ELSE IF "_index" \notin Head(hits)
    THEN [exc |-> "KeyError", hits |-> hits]
    ELSE IF "_type" \notin Head(hits)
    THEN [exc |-> "KeyError", hits |-> <<Head(hits) \ {"_index"}>> \o Tail(hits)]
    ELSE LET rest == StripHits(Tail(hits))
         IN  [exc |-> rest.exc,
              hits |-> <<Head(hits) \ {"_index", "_type"}>> \o rest.hits]

NoResult == [keys |-> {}, hits_keys |-> {}, hits |-> <<>>]

\* The argument of format_search_results after the call.
Stripped(results) ==
    IF "_shards" \notin results.keys THEN results
    ELSE IF "timed_out" \notin results.keys
    THEN [results EXCEPT !.keys = @ \ {"_shards"}]
    ELSE IF "hits" \notin results.keys \/ "hits" \notin results.hits_keys
    THEN [results EXCEPT !.keys = @ \ {"_shards", "timed_out"}]
    ELSE [results EXCEPT !.keys = @ \ {"_shards", "timed_out"},
                         !.hits = StripHits(@).hits]

format_search_results(results) ==
    IF "_shards" \notin results.keys \/ "timed_out" \notin results.keys
       \/ "hits" \notin results.keys \/ "hits" \notin results.hits_keys
    THEN [kind |-> "crash", err |-> "KeyError", result |-> NoResult]
    ELSE IF StripHits(results.hits).exc # "None"
    THEN [kind |-> "crash", err |-> "KeyError", result |-> NoResult]
    ELSE [kind |-> "ok", err |-> "None", result |-> Stripped(results)]

NoResponse == [kind |-> "none", err |-> "None", result |-> NoResult]

-----------------------------------------------------------------------------
(* The request handlers of one process.                                    *)

NoData ==
    [t |-> "dict", query |-> Absent, size |-> Absent, from |-> Absent, sort |-> Absent,
     order |-> Absent,
     facets |-> [t |-> "absent", items |-> <<>>],
     filters |-> [t |-> "absent", items |-> <<>>]]

Init ==
    /\ AVAILABLE_FACETS = ConfiguredFacets
    /\ pc = [h \in Handlers |-> "idle"]
    /\ data = [h \in Handlers |-> NoData]
    /\ requested_facets = [h \in Handlers |-> <<>>]
    /\ facets = [h \in Handlers |-> {}]
    /\ search_req = [h \in Handlers |-> Returned(NoIntent)]
    /\ es_q = [h \in Handlers |-> NoQuery]
    /\ body = [h \in Handlers |-> <<>>]
    /\ es_r = [h \in Handlers |-> NoResult]
    /\ response = [h \in Handlers |-> NoResponse]

\* The handlers of one process are threads: the interpreter may switch
\* from one to another between any two bytecodes of parse_search_request.
\* The only stores into shared objects are those of lines 65 and 77, one per
\* pass of the facets loop, and nothing a handler reads from the shared
\* configuration is ever stored into; so one step per pass gives every
\* interleaving.

\* line 149 entered; parse_search_request, lines 9-46.
ParseFields(h, d) ==
    /\ pc[h] = "idle"
    /\ data' = [data EXCEPT ![h] = d]
    /\ IF ParsedFields(d).kind # "ok"
       THEN /\ search_req' = [search_req EXCEPT ![h] = ParsedFields(d)]
            /\ pc' = [pc EXCEPT ![h] = "failed"]
            /\ UNCHANGED requested_facets
       ELSE /\ requested_facets' =
                  [requested_facets EXCEPT
                      ![h] = IF d.facets.t = "absent" THEN <<>>
                             ELSE d.facets.items]
            /\ pc' = [pc EXCEPT ![h] = "facets"]
            /\ UNCHANGED search_req
    /\ UNCHANGED <<AVAILABLE_FACETS, facets, es_q, body, es_r, response>>

\* parse_search_request, lines 46-77: one pass of the facets loop.
ParseFacet(h) ==
    /\ pc[h] = "facets"
    /\ requested_facets[h] # <<>>
    /\ LET pass == FacetsBody(Head(requested_facets[h]), AVAILABLE_FACETS,
                              facets[h])
       IN  /\ AVAILABLE_FACETS' = pass.schema
           /\ IF pass.out.kind # "ok"
              THEN /\ search_req' = [search_req EXCEPT ![h] = pass.out]
                   /\ pc' = [pc EXCEPT ![h] = "failed"]
                   /\ requested_facets' = [requested_facets EXCEPT ![h] = <<>>]
                   /\ facets' = [facets EXCEPT ![h] = {}]
              ELSE /\ requested_facets' =
                         [requested_facets EXCEPT ![h] = Tail(@)]
                   /\ facets' = [facets EXCEPT ![h] = pass.names]
                   /\ UNCHANGED <<search_req, pc>>
    /\ UNCHANGED <<data, es_q, body, es_r, response>>

\* parse_search_request, lines 80-132, and the assignment of line 149.
ParseFilters(h) ==
    /\ pc[h] = "facets"
    /\ requested_facets[h] = <<>>
    /\ LET out == ParsedFilters(data[h], AVAILABLE_FACETS, facets[h])
       IN  /\ search_req' = [search_req EXCEPT ![h] = out]
           /\ pc' = [pc EXCEPT ![h] = IF out.kind = "ok" THEN "parsed"
                                      ELSE "failed"]
    /\ facets' = [facets EXCEPT ![h] = {}]
    /\ UNCHANGED <<AVAILABLE_FACETS, data, requested_facets, es_q, body, es_r,
                   response>>

\* lines 153-186
BuildQuery(h) ==
    /\ pc[h] = "parsed"
    /\ es_q' = [es_q EXCEPT ![h] = build_es_q(search_req[h].intent)]
    /\ pc' = [pc EXCEPT ![h] = "built"]
    /\ UNCHANGED <<AVAILABLE_FACETS, data, requested_facets, facets, search_req,
                   body, es_r, response>>

\* line 188, first half: es.search serialises es_q, reading the facet
\* objects as they are at that moment, and sends it to the engine.
EngineSend(h) ==
    /\ pc[h] = "built"
    /\ body' = [body EXCEPT
                   ![h] = [name \in es_q[h].facets |-> AVAILABLE_FACETS[name]]]
    /\ pc' = [pc EXCEPT ![h] = "sent"]
    /\ UNCHANGED <<AVAILABLE_FACETS, data, requested_facets, facets, search_req,
                   es_q, es_r, response>>

\* line 188, second half: the engine answers and es_r is assigned.
EngineReply(h, results) ==
    /\ pc[h] = "sent"
    /\ es_r' = [es_r EXCEPT ![h] = results]
    /\ pc' = [pc EXCEPT ![h] = "searched"]
    /\ UNCHANGED <<AVAILABLE_FACETS, data, requested_facets, facets, search_req,
                   es_q, body, response>>

\* line 188, second half: es.search raises (the engine is unreachable or
\* rejects the query); the exception leaves search(), es_r is never
\* assigned and line 190 is not reached.
EngineRaise(h) ==
    /\ pc[h] = "sent"
    /\ pc' = [pc EXCEPT ![h] = "raised"]
    /\ UNCHANGED <<AVAILABLE_FACETS, data, requested_facets, facets, search_req,
                   es_q, body, es_r, response>>

\* line 190: format_search_results strips es_r itself; the response is
\* built from the object it returns.
FormatResults(h) ==
    /\ pc[h] = "searched"
    /\ response' = [response EXCEPT ![h] = format_search_results(es_r[h])]
    /\ es_r' = [es_r EXCEPT ![h] = Stripped(es_r[h])]
    /\ pc' = [pc EXCEPT ![h] = "done"]
    /\ UNCHANGED <<AVAILABLE_FACETS, data, requested_facets, facets, search_req,
                   es_q, body>>

\* The handler has answered (a result, or the error raised) and takes the
\* next request.
Finish(h) ==
    /\ pc[h] \in {"failed", "raised", "done"}
    /\ pc' = [pc EXCEPT ![h] = "idle"]
    /\ data' = [data EXCEPT ![h] = NoData]
    /\ search_req' = [search_req EXCEPT ![h] = Returned(NoIntent)]
    /\ es_q' = [es_q EXCEPT ![h] = NoQuery]
    /\ body' = [body EXCEPT ![h] = <<>>]
    /\ es_r' = [es_r EXCEPT ![h] = NoResult]
    /\ response' = [response EXCEPT ![h] = NoResponse]
    /\ UNCHANGED <<AVAILABLE_FACETS, requested_facets, facets>>

-----------------------------------------------------------------------------
(* Request bodies and engine results the handlers are run on.              *)

MaxEntries == 2     \* entries of a 'facets' or 'filters' mapping
MaxHits == 2        \* hits of an engine result

S_x == <<120>>                            \* u"x"
S_year == <<121, 101, 97, 114>>           \* u"year"
S_energy == <<101, 110, 101, 114, 103, 121>>  \* u"energy"
S_2010 == <<50, 48, 49, 48>>              \* u"2010"
S_abc == <<97, 98, 99>>                   \* u"abc"
S_bogus == <<98, 111, 103, 117, 115>>     \* u"bogus"
S_up == <<117, 112>>                      \* u"up"
S_5 == <<53>>                             \* u"5"

QueryValues == {Absent, JStr(<<>>), JStr(S_x), JInt(42)}
\* Among the strings: u" 5", u"\t5\n", u"-1", u"- 5", u"+ 5", u"\u0663"
\* (ARABIC-INDIC DIGIT THREE), u"\xa0\uff15" (NO-BREAK SPACE, FULLWIDTH
\* DIGIT FIVE), u"5 0", u"+-5", u"-" and u"".
IntStrings ==
    {<<32, 53>>, <<9, 53, 10>>, <<45, 49>>, <<45, 32, 53>>, <<43, 32, 53>>,
     <<1635>>, <<160, 65301>>, <<53, 32, 48>>, <<43, 45, 53>>, <<45>>, <<>>,
     S_abc}
SizeValues ==
    {Absent, JInt(0 - 1), JInt(0), JInt(MAX_SEARCH_SIZE), JInt(MAX_SEARCH_SIZE + 1),
     JFloat(37), JFloat(0 - 5), JInfinity(1), JInfinity(0 - 1), JNaN,
     JBool(TRUE), Null, JList(1)}
    \cup {JStr(cs) : cs \in IntStrings}
FromValues ==
    {Absent, JInt(0 - 1), JInt(0), JInt(3), JStr(S_abc), JStr(<<45, 32, 53>>),
     JStr(<<9, 1635>>), JInfinity(1), Null}
SortValues == {Absent, JStr(S_date), JStr(S_bogus), JList(1)}
OrderValues == {Absent, JStr(S_asc), JStr(S_up)}

\* Bodies that decode to something other than an object.
BodyTypes == {"list", "null", "str", "int"}

FacetNames == {"category", "rights", "date", "bogus"}

FacetOpts(t, has, size, interval) ==
    [t |-> t, has |-> has, size |-> size, interval |-> interval]

FacetOptsValues ==
    {FacetOpts("dict", {}, Absent, Absent),
     FacetOpts("dict", {"size"}, JInt(5), Absent),
     FacetOpts("dict", {"size"}, JStr(S_5), Absent),
     FacetOpts("dict", {"size"}, JBool(TRUE), Absent),
     FacetOpts("dict", {"interval"}, Absent, JStr(S_day)),
     FacetOpts("dict", {"interval"}, Absent, JStr(S_year)),
     FacetOpts("dict", {"interval"}, Absent, JInt(7)),
     FacetOpts("int", {}, Absent, Absent),
     FacetOpts("str", {"size"}, Absent, Absent)}

TermsValue(t, elems) == [t |-> t, elems |-> elems]
NoTerms == TermsValue("absent", <<>>)

FilterOpts(t, has, terms, from, to) ==
    [t |-> t, has |-> has, terms |-> terms, from |-> from, to |-> to]

FilterOptsValues ==
    {FilterOpts("dict", {}, NoTerms, Absent, Absent),
     FilterOpts("dict", {"terms"},
                TermsValue("list", <<JStr(S_energy), JInt(42)>>), Absent, Absent),
     FilterOpts("dict", {"terms"},
                TermsValue("list", <<JInt(42), JStr(S_energy)>>), Absent, Absent),
     FilterOpts("dict", {"terms"}, TermsValue("list", <<>>), Absent, Absent),
     FilterOpts("dict", {"terms"},
                TermsValue("list", <<JStr(S_energy), Null>>), Absent, Absent),
     FilterOpts("dict", {"terms"}, TermsValue("str", <<>>), Absent, Absent),
     FilterOpts("dict", {"from"}, NoTerms, JStr(S_2010), Absent),
     FilterOpts("dict", {"from", "to"}, NoTerms, JStr(S_2010), JInt(2020)),
     FilterOpts("dict", {"to"}, NoTerms, Absent, Null),
     FilterOpts("int", {}, NoTerms, Absent, Absent)}

Entry(name, opts) == [name |-> name, opts |-> opts]

\* The mappings with at most MaxEntries entries (a mapping has each key
\* once), in every iteration order.
Mappings(opts) ==
    LET entries == {Entry(name, o) : name \in FacetNames, o \in opts}
        items == UNION {[1..k -> entries] : k \in 0..MaxEntries}
    IN  {[t |-> "dict", items |-> i] :
            i \in {j \in items :
                      \A a, b \in DOMAIN j : a # b => j[a].name # j[b].name}}

NoMapping == [t |-> "absent", items |-> <<>>]
NotAMapping == [t |-> "list", items |-> <<>>]
OneEntry(name, opts) == [t |-> "dict", items |-> <<Entry(name, opts)>>]

Request(query, size, from, sort, order, req_facets, req_filters) ==
    [t |-> "dict", query |-> query, size |-> size, from |-> from, sort |-> sort,
     order |-> order, facets |-> req_facets, filters |-> req_filters]

FacetSamples ==
    {NoMapping, NotAMapping,
     OneEntry("bogus", FacetOpts("dict", {}, Absent, Absent)),
     OneEntry("category", FacetOpts("dict", {"size"}, JInt(5), Absent))}

FilterSamples ==
    {NoMapping, NotAMapping,
     OneEntry("bogus", FilterOpts("dict", {}, NoTerms, Absent, Absent)),
     OneEntry("category",
              FilterOpts("dict", {"terms"},
                         TermsValue("list", <<JStr(S_energy), JInt(42)>>),
                         Absent, Absent))}

FacetMappings == Mappings(FacetOptsValues)
FilterMappings == Mappings(FilterOptsValues)

\* The mappings combined with every choice of the scalar fields.
MappingSamples ==
    {<<NoMapping, NoMapping>>,
     <<NoMapping, NotAMapping>>,
     <<NotAMapping,
       OneEntry("bogus", FilterOpts("dict", {}, NoTerms, Absent, Absent))>>,
     <<OneEntry("bogus", FacetOpts("dict", {}, Absent, Absent)),
       OneEntry("bogus", FilterOpts("dict", {}, NoTerms, Absent, Absent))>>}

\* A body of type t: [...], null, "..." or a number.
NotAnObject(t) == [NoData EXCEPT !.t = t]

\* A request with a valid query and every other scalar field left out.
MappingRequest(req_facets, req_filters) ==
    Request(JStr(S_x), Absent, Absent, Absent, Absent, req_facets, req_filters)

\* The requests served by the concurrent handlers.
FacetRequest(items) ==
    MappingRequest([t |-> "dict", items |-> items], NoMapping)

TwoSizes(size) ==
    FacetRequest(<<Entry("category", FacetOpts("dict", {"size"}, JInt(size), Absent)),
                   Entry("rights", FacetOpts("dict", {"size"}, JInt(size), Absent))>>)

ProcRequests ==
    {MappingRequest(NoMapping, NoMapping), TwoSizes(5), TwoSizes(7),
     FacetRequest(<<Entry("category", FacetOpts("dict", {}, Absent, Absent))>>),
     FacetRequest(<<Entry("category", FacetOpts("dict", {"size"}, JInt(5), Absent))>>),
     FacetRequest(<<Entry("category", FacetOpts("dict", {"size"}, JInt(5), Absent)),
                    Entry("bogus", FacetOpts("dict", {}, Absent, Absent))>>),
     FacetRequest(<<Entry("category",
                          FacetOpts("dict", {"size"}, JStr(S_5), Absent))>>),
     FacetRequest(<<Entry("date", FacetOpts("dict", {}, Absent, Absent))>>),
     FacetRequest(<<Entry("date", FacetOpts("dict", {"interval"}, Absent, JStr(S_day)))>>),
     FacetRequest(<<Entry("date", FacetOpts("dict", {"interval"}, Absent, JStr(S_year)))>>)}

HitKeys == {{"_id", "_source"} \cup x : x \in SUBSET {"_index", "_type"}}

\* Engine results, well formed or with any of the expected keys missing.
EngineResults ==
    {r \in [keys : {{"took"} \cup k : k \in SUBSET {"_shards", "timed_out", "hits"}},
            hits_keys : {{}, {"total"}, {"total", "hits"}},
            hits : UNION {[1..n -> HitKeys] : n \in 0..MaxHits}] :
        /\ ("hits" \in r.keys) = (r.hits_keys # {})
        /\ "hits" \notin r.hits_keys => r.hits = <<>>}

WellFormedResult ==
    [keys |-> {"took", "_shards", "timed_out", "hits"},
     hits_keys |-> {"total", "hits"},
     hits |-> <<{"_id", "_source", "_index", "_type"}>>]

ProcResults == {WellFormedResult}

SimpleRequest ==
    FacetRequest(<<Entry("category", FacetOpts("dict", {}, Absent, Absent))>>)

-----------------------------------------------------------------------------
(* Specifications.                                                         *)

\* The process: handlers serving requests in parallel, one after another.
Next ==
    \E h \in Handlers :
        \/ \E d \in ProcRequests : ParseFields(h, d)
        \/ ParseFacet(h)
        \/ ParseFilters(h)
        \/ BuildQuery(h)
        \/ EngineSend(h)
        \/ \E results \in ProcResults : EngineReply(h, results)
        \/ EngineRaise(h)
        \/ FormatResults(h)
        \/ Finish(h)

Spec == Init /\ [][Next]_vars

\* The first request of a freshly started process, up to the built query:
\* every combination of the scalar fields with a few mappings, and every
\* mapping of one kind with a few of the other.
NextCompile ==
    \/ /\ pc["h1"] = "idle"
       /\ \E q \in QueryValues, s \in SizeValues, f \in FromValues,
             so \in SortValues, o \in OrderValues, m \in MappingSamples :
              ParseFields("h1", Request(q, s, f, so, o, m[1], m[2]))
    \/ /\ pc["h1"] = "idle"
       /\ \E fa \in FacetMappings, fi \in FilterSamples :
              ParseFields("h1", MappingRequest(fa, fi))
    \/ /\ pc["h1"] = "idle"
       /\ \E fa \in FacetSamples, fi \in FilterMappings :
              ParseFields("h1", MappingRequest(fa, fi))
    \/ /\ pc["h1"] = "idle"
       /\ \E t \in BodyTypes : ParseFields("h1", NotAnObject(t))
    \/ ParseFacet("h1")
    \/ ParseFilters("h1")
    \/ BuildQuery("h1")

SpecCompile == Init /\ [][NextCompile]_vars

\* One request answered by the engine with any result.
NextShape ==
    \/ ParseFields("h1", SimpleRequest)
    \/ ParseFacet("h1")
    \/ ParseFilters("h1")
    \/ BuildQuery("h1")
    \/ EngineSend("h1")
    \/ \E results \in EngineResults : EngineReply("h1", results)
    \/ EngineRaise("h1")
    \/ FormatResults("h1")

SpecShape == Init /\ [][NextShape]_vars

-----------------------------------------------------------------------------
(* Properties of the process (Spec).                                       *)

\* parse_search_request has returned or raised for the handler's request.
Compiled(h) == pc[h] \notin {"idle", "facets"}

\* C1: compile never modifies the shared facet schema: in every reachable
\* state AVAILABLE_FACETS equals its value at process start.
C1_SchemaNeverModified == AVAILABLE_FACETS = ConfiguredFacets

\* C2: compile is stateless across requests: whatever was compiled before,
\* the outcome a handler holds for its request equals the outcome of the
\* same request compiled first on a freshly started process.
C2_StatelessCompile ==
    \A h \in Handlers :
        Compiled(h) =>
            search_req[h] = parse_search_request(data[h], ConfiguredFacets).out

\* C3: the facets a handler sends to the engine are exactly those its own
\* request resolved to, whatever the other handlers compile in between.
C3_OwnFacetsSent ==
    \A h \in Handlers :
        pc[h] \in {"sent", "raised", "searched", "done"} =>
            body[h] = search_req[h].intent.facets

\* The definition a requested facet is to resolve to: the configured
\* default with the validated override of its type applied.
C10_Resolved(name, opts) ==
    LET default == ConfiguredFacets[name]
    IN  IF default.type = "terms" /\ "size" \in opts.has /\ opts.size.t = "int"
        THEN [default EXCEPT !.size = opts.size.n]
        ELSE IF /\ default.type = "date_histogram"
                /\ "interval" \in opts.has
                /\ opts.interval.t = "str"
                /\ opts.interval.s \in ALLOWED_DATE_INTERVALS
        THEN [default EXCEPT !.interval = opts.interval.s]
        ELSE default

\* C10: for every successful compile, each requested facet's definition in
\* the intent is the configured default with only the validated override
\* applied, and exactly the configured default when no override is given.
C10_FacetResolution ==
    \A h \in Handlers :
        (Compiled(h) /\ search_req[h].kind = "ok") =>
            LET items == data[h].facets.items
            IN  /\ DOMAIN search_req[h].intent.facets
                       = {items[i].name : i \in DOMAIN items}
                /\ \A i \in DOMAIN items :
                       search_req[h].intent.facets[items[i].name]
                           = C10_Resolved(items[i].name, items[i].opts)

-----------------------------------------------------------------------------
(* Properties of one compile on a fresh process (SpecCompile).             *)

ValidationErrors ==
    {"MissingQuery", "InvalidSize", "SizeOutOfRange", "InvalidFrom",
     "FromNegative", "InvalidSort", "InvalidOrder", "FacetsNotObject",
     "UnknownFacet", "InvalidFacetSizeType", "InvalidIntervalType",
     "InvalidIntervalValue", "FiltersNotObject", "UnknownFilter",
     "MissingFilterTerms", "FilterTermsNotArray", "FilterTermsBadElementType",
     "FilterOptsNotObject"}

\* The violation of one facet entry, as the validation rules state it.
C4_FacetEntryError(e) ==
    IF e.name \notin DOMAIN ConfiguredFacets THEN "UnknownFacet"
    ELSE IF ConfiguredFacets[e.name].type = "terms" THEN
        IF "size" \in e.opts.has /\ e.opts.size.t # "int"
        THEN "InvalidFacetSizeType" ELSE "None"
    ELSE IF "interval" \notin e.opts.has THEN "None"
    ELSE IF e.opts.interval.t # "str" THEN "InvalidIntervalType"
    ELSE IF e.opts.interval.s \notin ALLOWED_DATE_INTERVALS
    THEN "InvalidIntervalValue" ELSE "None"

\* The violation of one filter entry, as the validation rules state it.
C4_FilterEntryError(e) ==
    IF e.name \notin DOMAIN ConfiguredFacets THEN "UnknownFilter"
    ELSE IF ConfiguredFacets[e.name].type = "terms" THEN
        IF "terms" \notin e.opts.has THEN "MissingFilterTerms"
        ELSE IF e.opts.terms.t # "list" THEN "FilterTermsNotArray"
        ELSE IF \E i \in DOMAIN e.opts.terms.elems :
                    e.opts.terms.elems[i].t \notin {"str", "int"}
        THEN "FilterTermsBadElementType" ELSE "None"
    ELSE "None"

\* The first violation among the entries of a mapping.
RECURSIVE C4_FirstError(_, _)
C4_FirstError(errors, i) ==
    IF i > Len(errors) THEN "None"
    ELSE IF errors[i] # "None" THEN errors[i]
    ELSE C4_FirstError(errors, i + 1)

\* size: absent is valid; a value that does not parse as an integer is
\* InvalidSize, one outside 0..MAX_SEARCH_SIZE is SizeOutOfRange.
C4_SizeError(v) ==
    IF v.t = "absent" THEN "None"
    ELSE IF PyInt(v).exc # "None" THEN "InvalidSize"
    ELSE IF PyInt(v).value < 0 \/ PyInt(v).value > MAX_SEARCH_SIZE
    THEN "SizeOutOfRange" ELSE "None"

\* from: absent is valid; a value that does not parse as an integer is
\* InvalidFrom, a negative one is FromNegative.
C4_FromError(v) ==
    IF v.t = "absent" THEN "None"
    ELSE IF PyInt(v).exc # "None" THEN "InvalidFrom"
    ELSE IF PyInt(v).value < 0 THEN "FromNegative" ELSE "None"

\* The violation of each field, in the order query, size, from, sort,
\* order, facets, filters.
C4_FieldErrors(d) ==
    <<IF d.query.t \in {"absent", "null"} \/ d.query = JStr(<<>>)
      THEN "MissingQuery" ELSE "None",
      C4_SizeError(d.size),
      C4_FromError(d.from),
      IF d.sort.t = "absent" \/ (d.sort.t = "str" /\ d.sort.s \in SORTABLE_FIELDS)
      THEN "None" ELSE "InvalidSort",
      IF d.order.t = "absent" \/ (d.order.t = "str" /\ d.order.s \in {S_asc, S_desc})
      THEN "None" ELSE "InvalidOrder",
      IF d.facets.t \notin {"absent", "dict"} THEN "FacetsNotObject"
      ELSE C4_FirstError([i \in DOMAIN d.facets.items |->
                              C4_FacetEntryError(d.facets.items[i])], 1),
      IF d.filters.t \notin {"absent", "dict"} THEN "FiltersNotObject"
      ELSE C4_FirstError([i \in DOMAIN d.filters.items |->
                              C4_FilterEntryError(d.filters.items[i])], 1)>>

\* The requests whose facet and filter options are all mappings, for which
\* the validation rules state every field's violation.
C4_OptionsAreMappings(d) ==
    /\ \A i \in DOMAIN d.facets.items : d.facets.items[i].opts.t = "dict"
    /\ \A i \in DOMAIN d.filters.items : d.filters.items[i].opts.t = "dict"

\* C4: validation is fail-fast in the order query, size, from, sort, order,
\* facets, filters: a request that violates more than one field is answered
\* with the error of the earliest violated field.
C4_FailFastOrder ==
    LET d == data["h1"]
        errors == C4_FieldErrors(d)
        violated == {i \in DOMAIN errors : errors[i] # "None"}
    IN  (Compiled("h1") /\ C4_OptionsAreMappings(d) /\ Cardinality(violated) > 1) =>
            /\ search_req["h1"].kind = "error"
            /\ search_req["h1"].err = C4_FirstError(errors, 1)

\* C5: compile is total: every request, whatever the types of its values,
\* ends with an intent or with one of the listed validation errors.
C5_CompileTotal ==
    Compiled("h1") =>
        \/ search_req["h1"].kind = "ok"
        \/ search_req["h1"].kind = "error" /\ search_req["h1"].err \in ValidationErrors

\* C8: every intent compile returns is well-formed: a non-empty string
\* query, 0 <= size <= MAX_SEARCH_SIZE, from >= 0, an allowed sort field,
\* order asc or desc, and only facet names of the schema.
C8_IntentWellFormed ==
    (Compiled("h1") /\ search_req["h1"].kind = "ok") =>
        LET intent == search_req["h1"].intent
        IN  /\ intent.query.t = "str" /\ intent.query.s # <<>>
            /\ intent.n_size >= 0 /\ intent.n_size <= MAX_SEARCH_SIZE
            /\ intent.n_from >= 0
            /\ intent.sort.t = "str" /\ intent.sort.s \in SORTABLE_FIELDS
            /\ intent.order.t = "str" /\ intent.order.s \in {S_asc, S_desc}
            /\ DOMAIN intent.facets \subseteq DOMAIN ConfiguredFacets

\* The clause one entry of the 'filters' mapping is to produce.
C9_Clause(e) ==
    LET field == ConfiguredFacets[e.name].field
    IN  IF ConfiguredFacets[e.name].type = "terms"
        THEN [type |-> "terms", field |-> field, terms |-> e.opts.terms.elems,
              has |-> {}, from |-> Absent, to |-> Absent]
        ELSE [type |-> "range", field |-> field, terms |-> <<>>,
              has |-> e.opts.has \cap {"from", "to"},
              from |-> IF "from" \in e.opts.has THEN e.opts.from ELSE Absent,
              to |-> IF "to" \in e.opts.has THEN e.opts.to ELSE Absent]

\* C9: filters are produced one-to-one from schema facets: a successful
\* compile holds one clause per entry of the 'filters' mapping, on the
\* schema's field, with the terms unchanged and in order, or with from/to
\* exactly when present; an entry whose name is not in the schema, reached
\* with everything before it valid, yields UnknownFilter and no intent; and
\* the built query's must clause contains every clause.
C9_FiltersOneToOne ==
    LET d == data["h1"]
        items == d.filters.items
        out == search_req["h1"]
        unknown == {i \in DOMAIN items : items[i].name \notin DOMAIN ConfiguredFacets}
    IN  /\ (Compiled("h1") /\ out.kind = "ok") =>
               /\ unknown = {}
               /\ Len(out.intent.filters) = Len(items)
               /\ \A i \in DOMAIN items : out.intent.filters[i] = C9_Clause(items[i])
        /\ (Compiled("h1") /\ unknown # {}) =>
               /\ out.kind # "ok"
               /\ ( /\ parse_search_request([d EXCEPT !.filters = NoMapping],
                                            ConfiguredFacets).out.kind = "ok"
                    /\ \E k \in unknown :
                          \A i \in 1..(k - 1) :
                              /\ items[i].opts.t = "dict"
                              /\ C4_FilterEntryError(items[i]) = "None" )
                  => out = OcdApiError("UnknownFilter")
        /\ (pc["h1"] = "built" /\ out.intent.filters # <<>>) =>
               /\ "bool" \in es_q["h1"].filter.keys
               /\ \A i \in DOMAIN out.intent.filters :
                      \E j \in DOMAIN es_q["h1"].filter.must :
                          es_q["h1"].filter.must[j] = out.intent.filters[i]

\* A query was built from a terms filter and a range filter with neither
\* bound, each in its place.
C9_Witness ==
    /\ pc["h1"] = "built"
    /\ Len(data["h1"].filters.items) = 2
    /\ Len(es_q["h1"].filter.must) = 2
    /\ es_q["h1"].filter.must[1].type = "terms"
    /\ es_q["h1"].filter.must[1].terms = <<JInt(42), JStr(S_energy)>>
    /\ es_q["h1"].filter.must[2].type = "range"
    /\ es_q["h1"].filter.must[2].has = {}

\* C6 as stated: the built query holds a filter key if and only if the
\* intent has filters.
C6_FilterKeyIffFilters ==
    pc["h1"] = "built" =>
        (("filter" \in es_q["h1"].filtered_keys)
            <=> (search_req["h1"].intent.filters # <<>>))

\* C6, amended: the built query always holds the filter key; its value is
\* the empty mapping when the intent has no filters and the conjunction of
\* the intent's filters otherwise.
C6_FilterClause ==
    pc["h1"] = "built" =>
        /\ "filter" \in es_q["h1"].filtered_keys
        /\ search_req["h1"].intent.filters = <<>> =>
               es_q["h1"].filter = [keys |-> {}, must |-> <<>>]
        /\ search_req["h1"].intent.filters # <<>> =>
               es_q["h1"].filter
                   = [keys |-> {"bool"}, must |-> search_req["h1"].intent.filters]

\* A query was built for an intent without filters.
C6_Witness ==
    /\ pc["h1"] = "built"
    /\ search_req["h1"].intent.filters = <<>>
    /\ es_q["h1"].filter.keys = {}

-----------------------------------------------------------------------------
(* Properties of result shaping (SpecShape).                               *)

\* C7: shaping never ends with an unhandled failure: whatever keys the
\* engine result lacks, the handler ends with a result or with the engine
\* error kind.
C7_ShapeNeverCrashes ==
    pc["h1"] = "done" => response["h1"].kind \in {"ok", "engine_error"}

====
